---- MODULE Spec2Model ----
(***************************************************************************)
(* Godspeed MCP connector: the GodspeedAPI client and the tool dispatcher. *)
(*                                                                         *)
(* The repository holds three builds of the client:                        *)
(*   "login"  src/unnamed/part_003  (username/password, lazy login)        *)
(*   "token"  src/src/godspeed.ts   (token only, no local validation)      *)
(*   "valid"  src/unnamed/part_004  (token only, local validation,         *)
(*                                   duplicateList)                        *)
(* and two builds of the dispatcher: src/src/godspeed.ts lines 248-441     *)
(* (used with "login" and "token") and src/unnamed/part_005 (used with     *)
(* "valid").  The build is fixed in the initial state.                     *)
(*                                                                         *)
(* JavaScript values are tagged records.  A string is a sequence of        *)
(* chunks of characters (the empty string is the empty sequence); where    *)
(* the code looks at single characters (the date pattern, URI escaping)    *)
(* the chunks are single characters.                                       *)
(***************************************************************************)
EXTENDS Integers, Sequences, FiniteSets, TLC

VARIABLES variant, startup, server, authToken, calls

vars == <<variant, startup, server, authToken, calls>>

----------------------------------------------------------------------------
(* Bounds *)

\* number of semantic date fields (due, start, snooze) populated in one
\* argument record
MaxPairs == 1

\* number of entries in one listTasks filter record
MaxFilters == 2

----------------------------------------------------------------------------
(* JavaScript values *)

Undefined == [t |-> "undefined"]

Str(s) == [t |-> "string", s |-> s]

\* numbers are counted in halves, so that 3 halves is the non-integer 1.5
Num(h) == [t |-> "number", halves |-> h]

Bool(b) == [t |-> "boolean", b |-> b]

DateVal(d) == [t |-> "date", d |-> d]

Obj(f) == [t |-> "object", f |-> f]

\* ToBoolean, as applied by `!x`, `x && y`, `x || y`, `x ? a : b`
Truthy(v) ==
    CASE v.t = "undefined" -> FALSE
      [] v.t = "string" -> v.s # <<>>
      [] v.t = "number" -> v.halves # 0
      [] v.t = "boolean" -> v.b
      [] OTHER -> TRUE

NumberIsInteger(v) == v.t = "number" /\ v.halves % 2 = 0

DigitChunk(n) ==
    CASE n = 0 -> "0" [] n = 1 -> "1" [] n = 2 -> "2" [] n = 3 -> "3"
      [] n = 4 -> "4" [] n = 5 -> "5" [] n = 6 -> "6" [] n = 7 -> "7"
      [] n = 8 -> "8" [] OTHER -> "9"

\* decimal digits of a natural number below 100
NatChunks(n) == IF n < 10 THEN <<DigitChunk(n)>> ELSE <<DigitChunk(n \div 10), DigitChunk(n % 10)>>

\* String(v) and template interpolation `${v}`
ToStr(v) ==
    CASE v.t = "undefined" -> <<"undefined">>
      [] v.t = "string" -> v.s
      [] v.t = "boolean" -> IF v.b THEN <<"t", "r", "u", "e">> ELSE <<"f", "a", "l", "s", "e">>
      [] v.t = "number" ->
            LET a == IF v.halves < 0 THEN 0 - v.halves ELSE v.halves
                sign == IF v.halves < 0 THEN <<"-">> ELSE <<>>
                frac == IF a % 2 = 1 THEN <<".", "5">> ELSE <<>>
            IN sign \o NatChunks(a \div 2) \o frac
      [] v.t = "date" -> <<v.d>>
      [] OTHER -> <<"[object Object]">>

\* params.k of an object given as a function from its own keys to values
Get(obj, k) == IF k \in DOMAIN obj THEN obj[k] ELSE Undefined

EmptyObj == [k \in {} |-> Undefined]

\* JSON.stringify of an object, as the parsed JSON object the remote reads:
\* keys whose value is undefined are left out, a Date becomes a string
JsonValue(v) == IF v.t = "date" THEN Str(<<v.d>>) ELSE v

JSONstringify(obj) ==
    [k \in {x \in DOMAIN obj : obj[x] # Undefined} |-> JsonValue(obj[k])]

\* const { id, ...updateData } = params
RestWithoutId(params) == [k \in (DOMAIN params) \ {"id"} |-> params[k]]

----------------------------------------------------------------------------
(* The API client: requests, results, and the synchronous part of each
   operation up to its first network call *)

Variants == {"login", "token", "valid"}

API_BASE_URL == "https://api.godspeedapp.com"

NoBody == [t |-> "none"]

JsonBody(obj) == [t |-> "json", f |-> obj]

Request(method, url, headers, body) ==
    [method |-> method, url |-> url, headers |-> headers, body |-> body]

\* outcome of the synchronous part: an exception or a call of fetch
Throw(msg) == [k |-> "throw", msg |-> msg]

Fetch(req) == [k |-> "fetch", req |-> req]

\* the headers object built by getAuthHeaders
AuthHeaders(tok) ==
    ("Authorization" :> (<<"Bearer ">> \o ToStr(tok)))
        @@ ("Content-Type" :> <<"application/json">>)

\* getAuthHeaders of the token-only builds throws on a missing token; the
\* "login" build logs in instead (see Call and LoginRespond) and never throws
\* here
AuthMissing(v, tok) == v # "login" /\ ~Truthy(tok)

AuthRequiredMsg == <<"Authentication token is required. Use setAuthToken() method to set it.">>

getAuthHeaders(v, tok) ==
    IF AuthMissing(v, tok) THEN Throw(AuthRequiredMsg) ELSE Fetch(AuthHeaders(tok))

\* /^\d{4}-\d{2}-\d{2}$/.test(s), s given character by character
IsDigit(c) == c \in {"0", "1", "2", "3", "4", "5", "6", "7", "8", "9"}

TimelessPattern(s) ==
    /\ Len(s) = 10
    /\ \A i \in {1, 2, 3, 4, 6, 7, 9, 10} : IsDigit(s[i])
    /\ s[5] = "-"
    /\ s[8] = "-"

\* params.x && !/.../.test(params.x)
BadTimeless(params, k) ==
    Truthy(Get(params, k)) /\ ~TimelessPattern(ToStr(Get(params, k)))

BothSet(params, a, b) == Truthy(Get(params, a)) /\ Truthy(Get(params, b))

BadDuration(params) ==
    /\ Get(params, "duration_minutes") # Undefined
    /\ (~NumberIsInteger(Get(params, "duration_minutes"))
            \/ Get(params, "duration_minutes").halves < 0)

\* the first failing local check of updateTask in the "valid" build, <<>> if
\* none fails
updateTaskValidation(params) ==
    IF ~Truthy(Get(params, "id")) THEN <<"Task ID is required">>
    ELSE IF BothSet(params, "due_at", "timeless_due_at")
        THEN <<"Cannot specify both due_at and timeless_due_at">>
    ELSE IF BothSet(params, "snoozed_until", "timeless_snoozed_until")
        THEN <<"Cannot specify both snoozed_until and timeless_snoozed_until">>
    ELSE IF BothSet(params, "starts_at", "timeless_starts_at")
        THEN <<"Cannot specify both starts_at and timeless_starts_at">>
    ELSE IF BadTimeless(params, "timeless_due_at")
        THEN <<"timeless_due_at must be formatted as YYYY-MM-DD">>
    ELSE IF BadTimeless(params, "timeless_snoozed_until")
        THEN <<"timeless_snoozed_until must be formatted as YYYY-MM-DD">>
    ELSE IF BadTimeless(params, "timeless_starts_at")
        THEN <<"timeless_starts_at must be formatted as YYYY-MM-DD">>
    ELSE IF BadDuration(params)
        THEN <<"duration_minutes must be a positive integer">>
    ELSE <<>>

TasksUrl == <<API_BASE_URL, "/tasks">>

TaskUrl(id) == <<API_BASE_URL, "/tasks/">> \o ToStr(id)

createTask(v, tok, params) ==
    IF AuthMissing(v, tok) THEN getAuthHeaders(v, tok)
    ELSE Fetch(Request("POST", TasksUrl, AuthHeaders(tok), JsonBody(JSONstringify(params))))

\* updateTask sending the whole parameter record, identifier included
updateTaskWithId(v, tok, params) ==
    IF AuthMissing(v, tok) THEN getAuthHeaders(v, tok)
    ELSE IF v = "valid" /\ updateTaskValidation(params) # <<>>
        THEN Throw(updateTaskValidation(params))
    ELSE Fetch(Request("PATCH", TaskUrl(Get(params, "id")), AuthHeaders(tok),
                       JsonBody(JSONstringify(params))))

updateTask(v, tok, params) ==
    IF AuthMissing(v, tok) THEN getAuthHeaders(v, tok)
    ELSE IF v = "valid" /\ updateTaskValidation(params) # <<>>
        THEN Throw(updateTaskValidation(params))
    ELSE Fetch(Request("PATCH", TaskUrl(Get(params, "id")), AuthHeaders(tok),
                       JsonBody(JSONstringify(RestWithoutId(params)))))

getTask(v, tok, id) ==
    IF v = "valid" /\ ~Truthy(id) THEN Throw(<<"Task ID is required">>)
    ELSE IF AuthMissing(v, tok) THEN getAuthHeaders(v, tok)
    ELSE Fetch(Request("GET", TaskUrl(id), AuthHeaders(tok), NoBody))

deleteTask(v, tok, id) ==
    IF v = "valid" /\ ~Truthy(id) THEN Throw(<<"Task ID is required">>)
    ELSE IF AuthMissing(v, tok) THEN getAuthHeaders(v, tok)
    ELSE Fetch(Request("DELETE", TaskUrl(id), AuthHeaders(tok), NoBody))

getTaskLists(v, tok) ==
    IF AuthMissing(v, tok) THEN getAuthHeaders(v, tok)
    ELSE Fetch(Request("GET", <<API_BASE_URL, "/lists">>, AuthHeaders(tok), NoBody))

\* the completion field of UpdateTaskParams: is_complete in part_004,
\* completed in the older builds
CompletionField(v) == IF v = "valid" THEN "is_complete" ELSE "completed"

\* the completion record with a cleared flag added: { id, is_complete, is_cleared }
CompletionParamsCleared(v, id, flag) ==
    ("id" :> id) @@ (CompletionField(v) :> Bool(flag)) @@ ("is_cleared" :> Bool(flag))

\* { id, is_complete: true }
CompletionParams(v, id, flag) == ("id" :> id) @@ (CompletionField(v) :> Bool(flag))

completeTask(v, tok, id) == updateTask(v, tok, CompletionParams(v, id, TRUE))

uncompleteTask(v, tok, id) == updateTask(v, tok, CompletionParams(v, id, FALSE))

\* duplicateList exists in the "valid" build only
\* a duplicateList that never sends its parameters
duplicateListBare(v, tok, listId, params) ==
    IF ~Truthy(listId) THEN Throw(<<"List ID is required">>)
    ELSE IF AuthMissing(v, tok) THEN getAuthHeaders(v, tok)
    ELSE Fetch(Request("POST", <<API_BASE_URL, "/lists/">> \o ToStr(listId) \o <<"/duplicate">>,
                       AuthHeaders(tok), JsonBody(JSONstringify(EmptyObj))))

duplicateList(v, tok, listId, params) ==
    IF ~Truthy(listId) THEN Throw(<<"List ID is required">>)
    ELSE IF AuthMissing(v, tok) THEN getAuthHeaders(v, tok)
    ELSE Fetch(Request("POST", <<API_BASE_URL, "/lists/">> \o ToStr(listId) \o <<"/duplicate">>,
                       AuthHeaders(tok),
                       JsonBody(JSONstringify(IF Truthy(params) THEN params.f ELSE EmptyObj))))

----------------------------------------------------------------------------
(* listTasks: the query string *)

\* the characters encodeURIComponent leaves alone: A-Z a-z 0-9 - _ . ! ~ * ' ( )
\* (of the capitals only those the model's values use)
Unreserved ==
    {"a", "b", "c", "d", "e", "f", "g", "h", "i", "j", "k", "l", "m",
     "n", "o", "p", "q", "r", "s", "t", "u", "v", "w", "x", "y", "z",
     "L", "T", "Z",
     "0", "1", "2", "3", "4", "5", "6", "7", "8", "9",
     "-", "_", ".", "!", "~", "*", "'", "(", ")"}

\* encodeURIComponent of one character
EncodeChar(c) ==
    CASE c \in Unreserved -> <<c>>
      [] c = " " -> <<"%", "2", "0">>
      [] c = "&" -> <<"%", "2", "6">>
      [] c = "=" -> <<"%", "3", "D">>
      [] c = ":" -> <<"%", "3", "A">>
      [] c = "?" -> <<"%", "3", "F">>
      [] c = "/" -> <<"%", "2", "F">>
      [] OTHER -> <<"%", "2", "5">>

RECURSIVE encodeURIComponent(_)
encodeURIComponent(s) ==
    IF s = <<>> THEN <<>> ELSE EncodeChar(Head(s)) \o encodeURIComponent(Tail(s))

\* an object whose key order matters is kept as its entries, in insertion
\* order (what Object.entries returns)
ObjE(e) == [t |-> "object", e |-> e]

\* the filter testing the value for truth instead: .filter(([_, value]) => value)
FilterTruthy(entries) == SelectSeq(entries, LAMBDA kv : Truthy(kv[2]))

\* .filter(([_, value]) => value !== undefined)
FilterDefined(entries) == SelectSeq(entries, LAMBDA kv : kv[2] # Undefined)

\* .map(([key, value]) => `${key}=${encodeURIComponent(String(value))}`)
MapPair(kv) == <<kv[1], "=">> \o encodeURIComponent(ToStr(kv[2]))

\* .join('&')
RECURSIVE JoinAmp(_)
JoinAmp(entries) ==
    IF entries = <<>> THEN <<>>
    ELSE IF Len(entries) = 1 THEN MapPair(entries[1])
    ELSE MapPair(entries[1]) \o <<"&">> \o JoinAmp(Tail(entries))

queryParams(params) ==
    IF Truthy(params) THEN JoinAmp(FilterDefined(params.e)) ELSE <<>>

listTasksUrl(params) ==
    TasksUrl \o (IF queryParams(params) # <<>> THEN <<"?">> \o queryParams(params) ELSE <<>>)

listTasks(v, tok, params) ==
    IF AuthMissing(v, tok) THEN getAuthHeaders(v, tok)
    ELSE Fetch(Request("GET", listTasksUrl(params), AuthHeaders(tok), NoBody))

----------------------------------------------------------------------------
(* Responses of the remote and what each operation makes of them *)

HttpJson(ok, f) == [t |-> "http", ok |-> ok, json |-> TRUE, data |-> f]

\* a response whose body is not JSON (an empty body, an HTML error page)
HttpText(ok) == [t |-> "http", ok |-> ok, json |-> FALSE]

\* fetch rejects: no response at all
NetFailure == [t |-> "failure", msg |-> <<"fetch failed">>]

Payload == ("id" :> Str(<<"T1">>)) @@ ("title" :> Str(<<"Buy milk">>))

Responses ==
    { HttpJson(TRUE, Payload),
      HttpJson(FALSE, "error" :> Str(<<"not found">>)),
      HttpJson(FALSE, "error" :> Str(<<>>)),
      HttpJson(FALSE, EmptyObj),
      HttpText(TRUE),
      HttpText(FALSE),
      NetFailure }

LoginResponses ==
    { HttpJson(TRUE, "token" :> Str(<<"tk2">>)),
      HttpJson(TRUE, EmptyObj),
      HttpJson(FALSE, "error" :> Str(<<"bad credentials">>)),
      NetFailure }

Ops ==
    {"createTask", "updateTask", "getTask", "deleteTask", "listTasks",
     "getTaskLists", "completeTask", "uncompleteTask", "duplicateList"}

OpsOf(v) == IF v = "valid" THEN Ops ELSE Ops \ {"duplicateList"}

\* the prefix put in front of the message by the catch block of the method
\* whose try block is running; completeTask and uncompleteTask run
\* updateTask's
ErrorPrefix(op) ==
    CASE op = "createTask" -> "Create task error: "
      [] op \in {"updateTask", "completeTask", "uncompleteTask"} -> "Update task error: "
      [] op = "getTask" -> "Get task error: "
      [] op = "deleteTask" -> "Delete task error: "
      [] op = "listTasks" -> "List tasks error: "
      [] op = "getTaskLists" -> "Get task lists error: "
      [] OTHER -> "Duplicate list error: "

GenericMessage(op) ==
    CASE op = "createTask" -> "Failed to create task"
      [] op \in {"updateTask", "completeTask", "uncompleteTask"} -> "Failed to update task"
      [] op = "getTask" -> "Failed to get task"
      [] op = "deleteTask" -> "Failed to delete task"
      [] op = "listTasks" -> "Failed to list tasks"
      [] op = "getTaskLists" -> "Failed to get task lists"
      [] OTHER -> "Failed to duplicate list"

Return(data) == [k |-> "return", data |-> data]

NoRet == [k |-> "none"]

\* a catch block that rethrows the error as it is
RethrowBare(op, msg) == Throw(msg)

\* catch (error) { throw new Error(`<prefix>${error.message}`) }
Rethrow(op, msg) == Throw(<<ErrorPrefix(op)>> \o msg)

\* the message thrown inside the try block once fetch has settled, <<>> when
\* the method returns data
ResponseError(resp, generic) ==
    IF resp.t = "failure" THEN resp.msg
    ELSE IF ~resp.json THEN <<"Unexpected end of JSON input">>
    ELSE IF ~resp.ok
        THEN (IF Truthy(Get(resp.data, "error")) THEN ToStr(resp.data["error"]) ELSE <<generic>>)
    ELSE <<>>

AfterFetch(op, resp) ==
    IF ResponseError(resp, GenericMessage(op)) # <<>>
        THEN Rethrow(op, ResponseError(resp, GenericMessage(op)))
    ELSE Return(resp.data)

\* the synchronous part of a method call: positional arguments
SyncPart(v, tok, op, args) ==
    CASE op = "createTask" -> createTask(v, tok, args[1].f)
      [] op = "updateTask" -> updateTask(v, tok, args[1].f)
      [] op = "getTask" -> getTask(v, tok, args[1])
      [] op = "deleteTask" -> deleteTask(v, tok, args[1])
      [] op = "listTasks" -> listTasks(v, tok, args[1])
      [] op = "getTaskLists" -> getTaskLists(v, tok)
      [] op = "completeTask" -> completeTask(v, tok, args[1])
      [] op = "uncompleteTask" -> uncompleteTask(v, tok, args[1])
      [] OTHER -> duplicateList(v, tok, args[1], args[2])

----------------------------------------------------------------------------
(* The arguments the model calls the operations with *)

ADate == DateVal("2024-01-15T10:00:00.000Z")

GoodTimeless == Str(<<"2", "0", "2", "4", "-", "0", "1", "-", "1", "5">>)

BadTimelessValue == Str(<<"2", "0", "2", "4", "-", "1", "-", "5">>)

TimedKey(p) ==
    CASE p = "due" -> "due_at" [] p = "starts" -> "starts_at" [] OTHER -> "snoozed_until"

TimelessKey(p) ==
    CASE p = "due" -> "timeless_due_at"
      [] p = "starts" -> "timeless_starts_at"
      [] OTHER -> "timeless_snoozed_until"

\* the ways to populate one semantic date field: timed, timeless, or both
PairRecords(p) ==
    LET timeless == {Str(<<>>), GoodTimeless, BadTimelessValue}
    IN {TimedKey(p) :> ADate}
         \cup {TimelessKey(p) :> x : x \in timeless}
         \cup {(TimedKey(p) :> ADate) @@ (TimelessKey(p) :> x) : x \in timeless}

RECURSIVE PopulateAll(_)
PopulateAll(S) ==
    IF S = {} THEN {EmptyObj}
    ELSE LET p == CHOOSE x \in S : TRUE
         IN {a @@ b : a \in PairRecords(p), b \in PopulateAll(S \ {p})}

DateParts(pairs) ==
    UNION {PopulateAll(S) : S \in {T \in SUBSET pairs : Cardinality(T) <= MaxPairs}}

DurationParts ==
    {EmptyObj} \cup {"duration_minutes" :> Num(h) : h \in {-2, 0, 3}}

Ids == {Undefined, Str(<<>>), Str(<<"T1">>)}

CreateBases ==
    { EmptyObj,
      "title" :> Str(<<"Buy milk">>),
      ("title" :> Str(<<"Buy milk">>)) @@ ("list_id" :> Str(<<"L1">>)),
      ("title" :> Str(<<"Buy milk">>)) @@ ("notes" :> Undefined) }

CreateParams ==
    {Obj(b @@ d @@ m) : b \in CreateBases, d \in DateParts({"due", "starts"}), m \in DurationParts}

UpdateBases(v) ==
    LET ids == {EmptyObj} \cup {"id" :> x : x \in Ids \ {Undefined}}
        rest == { EmptyObj,
                  "title" :> Str(<<"Buy milk">>),
                  "notes" :> Undefined,
                  CompletionField(v) :> Bool(TRUE) }
    IN {i @@ r : i \in ids, r \in rest}

UpdateParams(v) ==
    {Obj(b @@ d @@ m) : b \in UpdateBases(v),
                        d \in DateParts({"due", "starts", "snoozed"}),
                        m \in DurationParts}

FilterValues(k) ==
    CASE k = "list_id" -> {Undefined, Str(<<>>), Str(<<"L", "1">>), Str(<<"a", "&", "b", "=", "c">>)}
      [] k = "status" -> {Undefined, Str(<<"c", "o", "m", "p", "l", "e", "t", "e">>)}
      [] k = "completed" -> {Undefined, Bool(FALSE)}
      [] OTHER -> {Undefined, Num(4)}

FilterKeys == {"status", "list_id", "completed", "page"}

EntryKeys(e) == {e[j][1] : j \in 1..Len(e)}

\* the entry lists of at most n entries with distinct keys, in every order
RECURSIVE EntryLists(_)
EntryLists(n) ==
    IF n = 0 THEN {<<>>}
    ELSE LET prev == EntryLists(n - 1)
             full == {e \in prev : Len(e) = n - 1}
         IN prev \cup UNION {UNION {{Append(e, <<k, x>>) : x \in FilterValues(k)} :
                                       k \in FilterKeys \ EntryKeys(e)} : e \in full}

ListParams == {Undefined} \cup {ObjE(e) : e \in EntryLists(MaxFilters)}

DuplicateParams ==
    {Undefined, Obj(EmptyObj), Obj("name" :> Str(<<"Copy">>)), Obj("name" :> Str(<<>>))}

\* the positional arguments of a direct call of a client method
ArgsOf(v, op) ==
    CASE op = "createTask" -> {<<x>> : x \in CreateParams}
      [] op = "updateTask" -> {<<x>> : x \in UpdateParams(v)}
      [] op \in {"getTask", "deleteTask", "completeTask", "uncompleteTask"} -> {<<x>> : x \in Ids}
      [] op = "listTasks" -> {<<x>> : x \in ListParams}
      [] op = "getTaskLists" -> {<<>>}
      [] OTHER -> {<<x, y>> : x \in Ids, y \in DuplicateParams}

----------------------------------------------------------------------------
(* The tool dispatcher: argument schemas and handlers *)

\* schema fields: z.string(), z.date(), z.number(), z.number().int().nonnegative(),
\* z.boolean(), z.enum([...]), z.array(z.string()), z.record(z.any())
Fld(key, type, optional) == [key |-> key, type |-> type, optional |-> optional]

ZString == [z |-> "string"]

ZDate == [z |-> "date"]

ZNumber == [z |-> "number", int |-> FALSE, nonnegative |-> FALSE]

ZNonNegInt == [z |-> "number", int |-> TRUE, nonnegative |-> TRUE]

ZBoolean == [z |-> "boolean"]

ZEnum(values) == [z |-> "enum", values |-> values]

ZArray == [z |-> "array"]

ZRecord == [z |-> "record"]

IdSchema == <<Fld("id", ZString, FALSE)>>

\* the schemas of src/unnamed/part_005
SchemaValid(tool) ==
    CASE tool = "listTasks" ->
            << Fld("status", ZEnum({<<"i", "n", "c", "o", "m", "p", "l", "e", "t", "e">>,
                                    <<"c", "o", "m", "p", "l", "e", "t", "e">>}), TRUE),
               Fld("list_id", ZString, TRUE),
               Fld("updated_before", ZString, TRUE),
               Fld("updated_after", ZString, TRUE) >>
      [] tool = "createTask" ->
            << Fld("title", ZString, FALSE),
               Fld("list_id", ZString, TRUE),
               Fld("location", ZEnum({<<"start">>, <<"end">>}), TRUE),
               Fld("notes", ZString, TRUE),
               Fld("due_at", ZDate, TRUE),
               Fld("timeless_due_at", ZString, TRUE),
               Fld("starts_at", ZDate, TRUE),
               Fld("timeless_starts_at", ZString, TRUE),
               Fld("duration_minutes", ZNonNegInt, TRUE),
               Fld("label_names", ZArray, TRUE),
               Fld("label_ids", ZArray, TRUE),
               Fld("metadata", ZRecord, TRUE) >>
      [] tool = "updateTask" ->
            << Fld("id", ZString, FALSE),
               Fld("title", ZString, TRUE),
               Fld("notes", ZString, TRUE),
               Fld("due_at", ZDate, TRUE),
               Fld("timeless_due_at", ZString, TRUE),
               Fld("snoozed_until", ZDate, TRUE),
               Fld("timeless_snoozed_until", ZString, TRUE),
               Fld("starts_at", ZDate, TRUE),
               Fld("timeless_starts_at", ZString, TRUE),
               Fld("duration_minutes", ZNonNegInt, TRUE),
               Fld("is_complete", ZBoolean, TRUE),
               Fld("is_cleared", ZBoolean, TRUE),
               Fld("add_label_names", ZArray, TRUE),
               Fld("add_label_ids", ZArray, TRUE),
               Fld("remove_label_names", ZArray, TRUE),
               Fld("remove_label_ids", ZArray, TRUE),
               Fld("metadata", ZRecord, TRUE) >>
      [] tool = "getTaskLists" -> <<Fld("random_string", ZString, FALSE)>>
      [] tool = "duplicateList" ->
            <<Fld("list_id", ZString, FALSE), Fld("name", ZString, TRUE)>>
      [] OTHER -> IdSchema

\* the schemas of src/src/godspeed.ts
SchemaToken(tool) ==
    CASE tool = "listTasks" ->
            << Fld("page", ZNumber, TRUE),
               Fld("page_size", ZNumber, TRUE),
               Fld("list_id", ZString, TRUE),
               Fld("completed", ZBoolean, TRUE) >>
      [] tool = "createTask" ->
            << Fld("title", ZString, FALSE),
               Fld("list_id", ZString, FALSE),
               Fld("location", ZString, TRUE),
               Fld("notes", ZString, TRUE),
               Fld("due_at", ZDate, TRUE),
               Fld("label_names", ZArray, TRUE) >>
      [] tool = "updateTask" ->
            << Fld("id", ZString, FALSE),
               Fld("title", ZString, TRUE),
               Fld("list_id", ZString, TRUE),
               Fld("location", ZString, TRUE),
               Fld("notes", ZString, TRUE),
               Fld("due_at", ZDate, TRUE),
               Fld("label_names", ZArray, TRUE),
               Fld("completed", ZBoolean, TRUE) >>
      [] tool = "getTaskLists" -> <<>>
      [] OTHER -> IdSchema

Schema(v, tool) == IF v = "valid" THEN SchemaValid(tool) ELSE SchemaToken(tool)

\* does a value pass the field's type and refinements
TypeOk(type, x) ==
    CASE type.z = "string" -> x.t = "string"
      [] type.z = "date" -> x.t = "date"
      [] type.z = "number" ->
            /\ x.t = "number"
            /\ (type.int => x.halves % 2 = 0)
            /\ (type.nonnegative => x.halves >= 0)
      [] type.z = "boolean" -> x.t = "boolean"
      [] type.z = "enum" -> x.t = "string" /\ x.s \in type.values
      [] OTHER -> x.t = "object"

FieldOk(fld, raw) ==
    IF Get(raw, fld.key) = Undefined THEN fld.optional ELSE TypeOk(fld.type, raw[fld.key])

\* z.object(shape).safeParse(raw) succeeds
ZodAccepts(schema, raw) == \A j \in 1..Len(schema) : FieldOk(schema[j], raw)

\* the parsed object: the keys of the shape that the input has, in the order
\* of the shape; keys the shape does not name are stripped
RECURSIVE ZodEntries(_, _)
ZodEntries(schema, raw) ==
    IF schema = <<>> THEN <<>>
    ELSE (IF Head(schema).key \in DOMAIN raw
             THEN <<<<Head(schema).key, raw[Head(schema).key]>>>> ELSE <<>>)
           \o ZodEntries(Tail(schema), raw)

FromEntries(e) == [k \in EntryKeys(e) |-> e[CHOOSE j \in 1..Len(e) : e[j][1] = k][2]]

ZodObject(schema, raw) ==
    LET e == ZodEntries(schema, raw)
    IN [k \in EntryKeys(e) |-> raw[k]]

\* the arguments a tool handler passes to the client method
HandlerArgs(v, tool, raw) ==
    LET parsed == ZodObject(Schema(v, tool), raw)
    IN CASE tool \in {"createTask", "updateTask"} -> <<Obj(parsed)>>
         [] tool = "listTasks" -> <<ObjE(ZodEntries(Schema(v, tool), raw))>>
         [] tool = "getTaskLists" -> <<>>
         [] tool = "duplicateList" ->
               << Get(parsed, "list_id"),
                  IF Truthy(Get(parsed, "name")) THEN Obj("name" :> parsed["name"]) ELSE Undefined >>
         [] OTHER -> <<Get(parsed, "id")>>

\* what arrives as a tool's arguments is a JSON object
ToolArgs(v, tool) ==
    CASE tool = "createTask" -> {JSONstringify(x.f) : x \in CreateParams}
      [] tool = "updateTask" -> {JSONstringify(x.f) : x \in UpdateParams(v)}
      [] tool = "listTasks" -> {JSONstringify(FromEntries(e)) : e \in EntryLists(MaxFilters)}
      [] tool = "getTaskLists" -> {EmptyObj, "random_string" :> Str(<<"x">>)}
      [] tool = "duplicateList" ->
            {JSONstringify(("list_id" :> x) @@ y.f) :
                 x \in Ids, y \in DuplicateParams \ {Undefined}}
      [] OTHER -> {JSONstringify("id" :> x) : x \in Ids}

----------------------------------------------------------------------------
(* State *)

\* no response has reached the invocation
NoResponse == [t |-> "none"]

\* JSON.stringify(value, null, 2) of a string, number or boolean (the
\* strings of the model need no escaping)
JsonScalar(x) ==
    IF x.t = "string" THEN <<"\"">> \o x.s \o <<"\"">> ELSE ToStr(x)

\* the members of a pretty-printed object, one per line, indented by two
RECURSIVE PrettyMembers(_, _)
PrettyMembers(f, keys) ==
    IF keys = {} THEN <<>>
    ELSE LET k == CHOOSE x \in keys : TRUE
         IN <<"\n  ", "\"", k, "\": ">> \o JsonScalar(f[k])
              \o (IF keys = {k} THEN <<>> ELSE <<",">>)
              \o PrettyMembers(f, keys \ {k})

\* JSON.stringify(result, null, 2) of an object of scalars
PrettyJson(f) ==
    IF DOMAIN f = {} THEN <<"{}">>
    ELSE <<"{">> \o PrettyMembers(f, DOMAIN f) \o <<"\n}">>

\* no tool result: the invocation is not a tool's, or has not ended, or the
\* handler did not run
NoOut == [k |-> "none"]

TextContent(text) == [k |-> "result", content |-> <<[type |-> "text", text |-> text]>>]

\* a handler letting the client's failure escape instead of catching it
ToolResultRethrows(ret) ==
    IF ret.k = "return" THEN TextContent(PrettyJson(ret.data))
    ELSE [k |-> "throw", msg |-> ret.msg]

\* the try/catch of every tool handler: what it returns for the client's
\* return value or exception
ToolResult(ret) ==
    IF ret.k = "return" THEN TextContent(PrettyJson(ret.data))
    ELSE TextContent(<<"Error: ">> \o ret.msg)

\* the method ends (returns or throws); a tool handler that awaits it ends
\* with it
Finish(c, ret) ==
    [c EXCEPT !.pc = "done", !.ret = ret,
              !.out = IF c.entry = "tool" THEN ToolResult(ret) ELSE NoOut]

\* the process is either a program using the client as a library ("none")
\* or the server: before its startup check ("init"), exited, or running
ServerStates == {"none", "init", "exited", "running"}

Slots == {1}

Idle ==
    [pc |-> "idle", entry |-> "none", op |-> "none", raw |-> Undefined, args |-> <<>>,
     tok0 |-> Undefined, reqs |-> <<>>, resp |-> NoResponse, ret |-> NoRet, out |-> NoOut]

Tokens == {Str(<<>>), Str(<<"tk1">>)}

\* the credentials the "login" build is constructed with
Credentials == ("username" :> Str(<<"user">>)) @@ ("password" :> Str(<<"secret">>))

LoginRequest ==
    Request("POST", <<API_BASE_URL, "/auth/login">>,
            "Content-Type" :> <<"application/json">>,
            JsonBody(JSONstringify(Credentials)))

\* the values of the environment variable GODSPEED_TOKEN: absent, empty, a
\* token
StartupInputs == {Undefined, Str(<<>>), Str(<<"tk1">>)}

\* the arguments of the command line after the script name
\* (process.argv from index 2 on); the flag --token= is one chunk of its
\* argument, the value the chunks after it
StartupArgvs ==
    {<<>>, <<Str(<<"--token=">>)>>, <<Str(<<"--token=", "tk1">>)>>}

\* the argument is --token=VALUE: process.argv[i].startsWith('--token=')
StartsWithTokenFlag(arg) == arg.s # <<>> /\ arg.s[1] = "--token="

\* the loop over process.argv from index i on: tokenArg is the argument
\* after the first --token or -t (undefined when there is none), or what
\* follows --token= in the first such argument, whichever comes first
RECURSIVE TokenArgFrom(_, _)
TokenArgFrom(argv, i) ==
    IF i > Len(argv) THEN Undefined
    ELSE IF argv[i] \in {Str(<<"--token">>), Str(<<"-t">>)}
        THEN (IF i + 1 <= Len(argv) THEN argv[i + 1] ELSE Undefined)
    ELSE IF StartsWithTokenFlag(argv[i]) THEN Str(Tail(argv[i].s))
    ELSE TokenArgFrom(argv, i + 1)

TokenArgOf(argv) == TokenArgFrom(argv, 1)

NoStartup == [argv |-> <<>>, env |-> Undefined]

Init ==
    /\ variant \in Variants
    /\ server \in {"none", "init"}
    /\ startup \in IF server = "none" THEN {NoStartup}
                   ELSE [argv : StartupArgvs, env : StartupInputs]
    /\ authToken = Undefined
    /\ calls = [i \in Slots |-> Idle]

\* where a method call stands once its synchronous part has run
Started(c, v, tok) ==
    IF v = "login" /\ ~Truthy(tok)
        THEN [c EXCEPT !.pc = "login", !.reqs = <<LoginRequest>>]
    ELSE LET r == SyncPart(v, tok, c.op, c.args)
         IN IF r.k = "throw"
                THEN Finish(c, Rethrow(c.op, r.msg))
            ELSE [c EXCEPT !.pc = "fetch", !.reqs = Append(c.reqs, r.req)]

\* godspeedApi.setAuthToken(token), by a program using the client as a library
SetAuthToken(tok) ==
    /\ server = "none"
    /\ authToken' = tok
    /\ UNCHANGED <<variant, startup, server, calls>>

\* a direct call of a client method, by a program using the client as a
\* library
Call(i) ==
    /\ server = "none"
    /\ calls[i].pc = "idle"
    /\ \E op \in OpsOf(variant) : \E args \in ArgsOf(variant, op) :
          calls' = [calls EXCEPT ![i] =
                      Started([Idle EXCEPT !.entry = "direct", !.op = op, !.args = args,
                                           !.tok0 = authToken],
                              variant, authToken)]
    /\ UNCHANGED <<variant, startup, server, authToken>>

\* the token the server starts with: part_005 prefers the command line
\* argument, src/src/godspeed.ts reads the environment only
StartupToken(v, tokenArg, env) ==
    IF v = "valid" /\ Truthy(tokenArg) THEN tokenArg ELSE env

\* a startup check for a defined token only: if (token === undefined) exit
StartupOkDefined(tok) == tok # Undefined

\* if (!token) { ...; process.exit(1) }
StartupOk(tok) == Truthy(tok)

\* the top level of the server module: the token check, which reports the
\* error and exits the process ("exited"), or else the client, the tools
\* and the transport ("running")
Start ==
    /\ server = "init"
    /\ IF StartupOk(StartupToken(variant, TokenArgOf(startup.argv), startup.env))
           THEN /\ server' = "running"
                /\ authToken' = StartupToken(variant, TokenArgOf(startup.argv),
                                             startup.env)
       ELSE /\ server' = "exited"
            /\ authToken' = authToken
    /\ UNCHANGED <<variant, startup, calls>>

\* the outcome of an invocation whose arguments the schema rejects: the
\* framework answers, the handler does not run
Invalid == [k |-> "invalid"]

\* the invocation of a tool up to its first await: the arguments are parsed
\* against the tool's schema and the handler calls the client method, which
\* runs to its fetch or to its throw
Invoked(v, tok, tool, raw) ==
    IF ZodAccepts(Schema(v, tool), raw)
        THEN Started([Idle EXCEPT !.entry = "tool", !.op = tool, !.raw = Obj(raw),
                                  !.args = HandlerArgs(v, tool, raw), !.tok0 = tok],
                     v, tok)
    ELSE [Idle EXCEPT !.pc = "done", !.entry = "tool", !.op = tool,
                      !.raw = Obj(raw), !.tok0 = tok, !.ret = Invalid]

\* a tool invocation arrives
ToolCall(i) ==
    /\ server = "running"
    /\ calls[i].pc = "idle"
    /\ \E tool \in OpsOf(variant) : \E raw \in ToolArgs(variant, tool) :
          calls' = [calls EXCEPT ![i] = Invoked(variant, authToken, tool, raw)]
    /\ UNCHANGED <<variant, startup, server, authToken>>

\* authenticate() of the "login" build resumes with the login response
LoginError(resp) ==
    IF ResponseError(resp, "Authentication failed") # <<>>
        THEN ResponseError(resp, "Authentication failed")
    ELSE IF ~Truthy(Get(resp.data, "token"))
        THEN <<"Authentication token is missing from response">>
    ELSE <<>>

LoginAssigns(resp) == ResponseError(resp, "Authentication failed") = <<>>

LoginRespond(i, resp) ==
    /\ calls[i].pc = "login"
    /\ authToken' = IF LoginAssigns(resp) THEN Get(resp.data, "token") ELSE authToken
    /\ calls' = [calls EXCEPT ![i] =
                    IF LoginError(resp) # <<>>
                        THEN Finish([calls[i] EXCEPT !.resp = resp],
                                    Rethrow(calls[i].op,
                                            <<"Authentication error: ">> \o LoginError(resp)))
                    ELSE Started([calls[i] EXCEPT !.resp = resp], variant, authToken')]
    /\ UNCHANGED <<variant, startup, server>>

\* a client that drops its token when fetch rejects
RespondForgetting(i, resp) ==
    /\ calls[i].pc = "fetch"
    /\ calls' = [calls EXCEPT ![i] =
                    Finish([calls[i] EXCEPT !.resp = resp], AfterFetch(calls[i].op, resp))]
    /\ authToken' = IF resp.t = "failure" THEN Undefined ELSE authToken
    /\ UNCHANGED <<variant, startup, server>>

\* a client with a response cache: the answer to one request settles every
\* pending invocation that made the same request
RespondCached(i, resp) ==
    /\ calls[i].pc = "fetch"
    /\ calls' = [j \in DOMAIN calls |->
                    IF calls[j].pc = "fetch" /\ calls[j].reqs = calls[i].reqs
                        THEN Finish([calls[j] EXCEPT !.resp = resp],
                                    AfterFetch(calls[j].op, resp))
                    ELSE calls[j]]
    /\ UNCHANGED <<variant, startup, server, authToken>>

\* a method that is not resumed when its fetch settles
RespondLost(i, resp) ==
    /\ calls[i].pc = "fetch"
    /\ calls' = [calls EXCEPT ![i] = [calls[i] EXCEPT !.resp = resp]]
    /\ UNCHANGED <<variant, startup, server, authToken>>

\* fetch settles and the method runs to its return or throw
Respond(i, resp) ==
    /\ calls[i].pc = "fetch"
    /\ calls' = [calls EXCEPT ![i] =
                    Finish([calls[i] EXCEPT !.resp = resp], AfterFetch(calls[i].op, resp))]
    /\ UNCHANGED <<variant, startup, server, authToken>>

\* the caller has its result; the slot is free for the next invocation
Retire(i) ==
    /\ calls[i].pc = "done"
    /\ calls' = [calls EXCEPT ![i] = Idle]
    /\ UNCHANGED <<variant, startup, server, authToken>>

Next ==
    \/ \E tok \in Tokens : SetAuthToken(tok)
    \/ \E i \in Slots : Call(i)
    \/ Start
    \/ \E i \in Slots : ToolCall(i)
    \/ \E i \in Slots, resp \in LoginResponses : LoginRespond(i, resp)
    \/ \E i \in Slots, resp \in Responses : Respond(i, resp)
    \/ \E i \in Slots : Retire(i)

Spec == Init /\ [][Next]_vars

----------------------------------------------------------------------------
(* The server process with several tool invocations in flight: handlers    *)
(* are async functions of one event loop, each runs from its invocation to *)
(* its await of fetch and from the settled fetch to its return, and the    *)
(* steps of different invocations interleave at those awaits.              *)

\* number of tool invocations that can be in flight together
MaxCalls == 2

InFlight == 1..MaxCalls

\* the tools and arguments of the concurrent invocations: updateTask for an
\* identifier alone and with a malformed timeless date, getTask and
\* getTaskLists with all their arguments
ConcurrentTools == {"updateTask", "getTask", "getTaskLists"}

ConcurrentArgs(v, tool) ==
    IF tool = "updateTask"
        THEN {JSONstringify(("id" :> Str(<<"T1">>)) @@ d) :
                  d \in {EmptyObj, "timeless_due_at" :> BadTimelessValue}}
    ELSE ToolArgs(v, tool)

\* the answers of the remote to concurrent invocations: a success, a
\* rejection, no answer
ConcurrentResponses ==
    {HttpJson(TRUE, Payload), HttpJson(FALSE, "error" :> Str(<<"not found">>)), NetFailure}

InitServer ==
    /\ variant \in Variants
    /\ server = "init"
    /\ startup \in [argv : StartupArgvs, env : StartupInputs]
    /\ authToken = Undefined
    /\ calls = [i \in InFlight |-> Idle]

\* a tool invocation arrives while others may be in flight
Invoke(i) ==
    /\ server = "running"
    /\ calls[i].pc = "idle"
    /\ \E tool \in ConcurrentTools : \E raw \in ConcurrentArgs(variant, tool) :
          calls' = [calls EXCEPT ![i] = Invoked(variant, authToken, tool, raw)]
    /\ UNCHANGED <<variant, startup, server, authToken>>

NextServer ==
    \/ Start
    \/ \E i \in InFlight : Invoke(i)
    \/ \E i \in InFlight, resp \in ConcurrentResponses : Respond(i, resp)
    \/ \E i \in InFlight : Retire(i)

SpecServer == InitServer /\ [][NextServer]_vars

\* the transport settles every fetch, with a response or with a failure,
\* and the event loop then resumes the method that awaits it
Settles == \A i \in InFlight : WF_vars(\E resp \in ConcurrentResponses : Respond(i, resp))

SpecServerFair == SpecServer /\ Settles

----------------------------------------------------------------------------
(* The server process started with any command line: the startup and, in   *)
(* the process that runs, single tool invocations.                         *)

\* number of arguments on the command line
MaxArgs == 2

\* one argument of the command line: a token flag alone, a token flag with
\* an empty value or with a value, a word, the empty string
ArgInputs ==
    {Str(<<"--token">>), Str(<<"-t">>), Str(<<"--token=">>), Str(<<"--token=", "tk1">>),
     Str(<<"tk2">>), Str(<<>>)}

RECURSIVE ArgvsUpTo(_)
ArgvsUpTo(n) ==
    IF n = 0 THEN {<<>>}
    ELSE ArgvsUpTo(n - 1)
           \cup {Append(a, x) : a \in {b \in ArgvsUpTo(n - 1) : Len(b) = n - 1},
                                x \in ArgInputs}

\* the values of GODSPEED_TOKEN: absent, empty, a token that is on no
\* command line
EnvInputs == {Undefined, Str(<<>>), Str(<<"tk3">>)}

InitStartup ==
    /\ variant \in Variants
    /\ server = "init"
    /\ startup \in [argv : ArgvsUpTo(MaxArgs), env : EnvInputs]
    /\ authToken = Undefined
    /\ calls = [i \in Slots |-> Idle]

NextStartup ==
    \/ Start
    \/ \E i \in Slots : Invoke(i)
    \/ \E i \in Slots, resp \in ConcurrentResponses : Respond(i, resp)
    \/ \E i \in Slots : Retire(i)

SpecStartup == InitStartup /\ [][NextStartup]_vars

----------------------------------------------------------------------------
(* Vocabulary of the properties *)

\* the invocation in slot i has started
Active(c) == c.pc # "idle"

\* the client method has been called (the schema did not turn the
\* invocation away before the handler)
ClientCalled(c) == Active(c) /\ c.ret # Invalid

\* the invocation has ended in a failure without any request
FailedLocally(c) == c.pc = "done" /\ c.reqs = <<>> /\ c.ret.k \in {"throw", "invalid"}

Has(f, k) == k \in DOMAIN f /\ f[k] # Undefined

SuppliedKeys(f) == {k \in DOMAIN f : f[k] # Undefined}

\* the argument record the caller gave to createTask or updateTask: the
\* tool's arguments for a tool invocation, the method's parameter otherwise
Given(c) == IF c.entry = "tool" THEN c.raw.f ELSE c.args[1].f

\* the request of the operation itself (the last one issued)
OpRequest(c) == c.reqs[Len(c.reqs)]

DatePairs == {"due", "starts", "snoozed"}

----------------------------------------------------------------------------
(* Properties *)

\* C1: an operation invoked on a client on which no token has been set ends
\* in a failure, and no HTTP request is issued during the invocation.
C1_NoTokenNoRequest ==
    \A i \in Slots :
        (ClientCalled(calls[i]) /\ calls[i].tok0 = Undefined)
            => (FailedLocally(calls[i]) /\ calls[i].ret.k = "throw")

\* C2: an invocation issues exactly one HTTP request when its local checks
\* pass and none when they fail (a missing token is a failed check), and
\* never a second one.
C2_ExactlyOneRequest ==
    \A i \in Slots :
        /\ Len(calls[i].reqs) <= 1
        /\ (ClientCalled(calls[i]) /\ ~Truthy(calls[i].tok0)) => calls[i].reqs = <<>>
        /\ calls[i].pc = "fetch" => Len(calls[i].reqs) = 1
        /\ (calls[i].pc = "done" /\ calls[i].ret.k = "return") => Len(calls[i].reqs) = 1

\* C3: an updateTask call of the validating client (part_004) that supplies
\* both the timed and the timeless value of one field, whatever the values,
\* fails locally and issues no request.
C3_UpdateConflictRejected ==
    \A i \in Slots :
        (/\ variant = "valid"
         /\ Active(calls[i])
         /\ calls[i].op = "updateTask"
         /\ \E p \in DatePairs :
               Has(Given(calls[i]), TimedKey(p)) /\ Has(Given(calls[i]), TimelessKey(p)))
            => FailedLocally(calls[i])

\* C4: an updateTask call of the validating client (part_004) with a supplied
\* timeless_* value that is not of the form YYYY-MM-DD, the empty string
\* included, fails locally and issues no request.
C4_UpdateTimelessFormatRejected ==
    \A i \in Slots :
        (/\ variant = "valid"
         /\ Active(calls[i])
         /\ calls[i].op = "updateTask"
         /\ \E p \in DatePairs :
               /\ Has(Given(calls[i]), TimelessKey(p))
               /\ ~TimelessPattern(ToStr(Given(calls[i])[TimelessKey(p)])))
            => FailedLocally(calls[i])

\* C5: in the validating build (part_004 with part_005) a negative or
\* non-integer duration_minutes is rejected locally without a request, for
\* createTask and for updateTask, through a tool and in a direct call, and
\* a duration of 0 is not rejected for its value.
C5_BadDurationRejected ==
    \A i \in Slots :
        (/\ variant = "valid"
         /\ Active(calls[i])
         /\ calls[i].op \in {"createTask", "updateTask"}
         /\ Has(Given(calls[i]), "duration_minutes"))
            => LET d == Given(calls[i])["duration_minutes"]
               IN /\ (d.halves < 0 \/ d.halves % 2 # 0) => FailedLocally(calls[i])
                  /\ (d.halves = 0 /\ calls[i].ret.k = "throw")
                        => calls[i].ret.msg # <<ErrorPrefix(calls[i].op),
                                                "duration_minutes must be a positive integer">>

\* C6: a createTask call that sets both due_at and timeless_due_at, or both
\* starts_at and timeless_starts_at, fails locally before any request.
C6_CreateConflictRejected ==
    \A i \in Slots :
        (/\ variant = "valid"
         /\ Active(calls[i])
         /\ calls[i].op = "createTask"
         /\ \E p \in {"due", "starts"} :
               Has(Given(calls[i]), TimedKey(p)) /\ Has(Given(calls[i]), TimelessKey(p)))
            => FailedLocally(calls[i])

\* the identifier an invocation was given
GivenId(c) ==
    CASE c.op = "updateTask" -> Get(Given(c), "id")
      [] c.op = "duplicateList" ->
            (IF c.entry = "tool" THEN Get(c.raw.f, "list_id") ELSE c.args[1])
      [] OTHER -> (IF c.entry = "tool" THEN Get(c.raw.f, "id") ELSE c.args[1])

\* C7: updateTask, getTask, deleteTask, duplicateList, completeTask and
\* uncompleteTask called with a missing or empty identifier fail locally
\* and issue no request (stated for a client that holds a token; without
\* one the invocation is C1's case).
C7_MissingIdRejected ==
    \A i \in Slots :
        (/\ Active(calls[i])
         /\ Truthy(calls[i].tok0)
         /\ calls[i].op \in {"updateTask", "getTask", "deleteTask", "duplicateList",
                             "completeTask", "uncompleteTask"}
         /\ ~Truthy(GivenId(calls[i])))
            => FailedLocally(calls[i])

\* the invocation has issued the request of its operation
Requested(c) ==
    /\ c.pc \in {"fetch", "done"}
    /\ c.reqs # <<>>
    /\ OpRequest(c) # LoginRequest

\* C8: the JSON body of a createTask request has exactly the fields the
\* caller supplied, that of an updateTask request exactly the supplied
\* fields without the identifier, and the identifier forms the path
\* /tasks/<id>.
C8_BodyIsSuppliedFields ==
    \A i \in Slots :
        LET c == calls[i] IN
        (Requested(c) /\ c.op \in {"createTask", "updateTask"})
            => /\ OpRequest(c).body.t = "json"
               /\ c.op = "createTask" =>
                     /\ DOMAIN OpRequest(c).body.f = SuppliedKeys(c.args[1].f)
                     /\ OpRequest(c).url = <<API_BASE_URL, "/tasks">>
               /\ c.op = "updateTask" =>
                     /\ DOMAIN OpRequest(c).body.f = SuppliedKeys(c.args[1].f) \ {"id"}
                     /\ OpRequest(c).url = <<API_BASE_URL, "/tasks/">> \o ToStr(Get(c.args[1].f, "id"))
               /\ \A k \in DOMAIN OpRequest(c).body.f :
                     OpRequest(c).body.f[k] = JsonValue(c.args[1].f[k])

\* C8 witness: an updateTask request for a record with an identifier, a
\* field left undefined and at least two other fields.
C8_Witness ==
    \E i \in Slots :
        /\ Requested(calls[i])
        /\ calls[i].op = "updateTask"
        /\ Has(calls[i].args[1].f, "id")
        /\ \E k \in DOMAIN calls[i].args[1].f : calls[i].args[1].f[k] = Undefined
        /\ Cardinality(DOMAIN OpRequest(calls[i]).body.f) >= 2

\* the tokens a request of the model can carry
AllTokens == Tokens \cup StartupInputs \cup {Str(<<"tk2">>)}

\* the updateTask invocation that completeTask(id) / uncompleteTask(id) is
\* said to equal
AsUpdate(c) ==
    [c EXCEPT !.op = "updateTask",
              !.args = <<Obj(("id" :> c.args[1])
                               @@ (CompletionField(variant) :> Bool(c.op = "completeTask")))>>]

\* the outcomes updateTask can have once its request is out
UpdateOutcomes == {AfterFetch("updateTask", r) : r \in Responses}

\* C9: completeTask(id) and uncompleteTask(id) issue the request of
\* updateTask({id, completion flag}): PATCH /tasks/<id>, the authentication
\* headers, a body with the completion field only; and they end as that
\* updateTask call ends.
C9_CompleteIsUpdate ==
    \A i \in Slots :
        LET c == calls[i] IN
        (ClientCalled(c) /\ c.op \in {"completeTask", "uncompleteTask"})
            => /\ Requested(c) =>
                    /\ OpRequest(c).method = "PATCH"
                    /\ OpRequest(c).url = <<API_BASE_URL, "/tasks/">> \o ToStr(c.args[1])
                    /\ OpRequest(c).body =
                          JsonBody(CompletionField(variant) :> Bool(c.op = "completeTask"))
                    /\ \E t \in AllTokens :
                          /\ OpRequest(c).headers = AuthHeaders(t)
                          /\ Truthy(c.tok0) => t = c.tok0
               /\ ((c.pc \in {"login", "fetch"} \/ c.reqs = <<>>) /\ Len(c.reqs) <= 1) =>
                    LET u == Started([AsUpdate(c) EXCEPT !.pc = "idle", !.reqs = <<>>,
                                                         !.ret = NoRet],
                                     variant, c.tok0)
                    IN /\ c.pc = u.pc
                       /\ c.ret = u.ret
                       /\ c.reqs = u.reqs
               /\ (c.pc = "done" /\ Requested(c)) => c.ret \in UpdateOutcomes
               /\ c.ret.k = "throw" => Head(c.ret.msg) = "Update task error: "

\* C9 witness: a completeTask call whose PATCH request is out, and one that
\* has failed after the remote rejected it.
C9_Witness ==
    \E i \in Slots :
        /\ calls[i].op = "completeTask"
        /\ Requested(calls[i])
        /\ calls[i].pc = "done"
        /\ calls[i].ret.k = "throw"

\* the filters of a listTasks argument whose value is present, in order
PresentFilters(params) ==
    IF params = Undefined THEN <<>>
    ELSE SelectSeq(params.e, LAMBDA kv : kv[2] # Undefined)

CountOf(ch, s) == Cardinality({j \in 1..Len(s) : s[j] = ch})

\* key=value&key=value for the entries from index j on
RECURSIVE PairsFrom(_, _)
PairsFrom(e, j) ==
    IF j > Len(e) THEN <<>>
    ELSE (IF j > 1 THEN <<"&">> ELSE <<>>)
           \o <<e[j][1], "=">> \o encodeURIComponent(ToStr(e[j][2]))
           \o PairsFrom(e, j + 1)

\* C10: the URL of a listTasks request is the bare /tasks path when no
\* filter has a present value, and otherwise /tasks?<q> with one key=value
\* pair per present filter and none for an absent one, the values escaped,
\* the pairs joined by '&'.
C10_ListTasksUrl ==
    \A i \in Slots :
        LET c == calls[i] IN
        (Requested(c) /\ c.op = "listTasks")
            => LET present == PresentFilters(c.args[1])
                   url == OpRequest(c).url
               IN /\ present = <<>> => url = <<API_BASE_URL, "/tasks">>
                  /\ present # <<>> =>
                        /\ url = <<API_BASE_URL, "/tasks", "?">> \o PairsFrom(present, 1)
                        /\ CountOf("&", url) = Len(present) - 1
                        /\ CountOf("=", url) = Len(present)
                        /\ CountOf("?", url) = 1

\* C10 witness: a listTasks request for a record with an absent filter and a
\* present one whose value needs escaping.
C10_Witness ==
    \E i \in Slots :
        /\ Requested(calls[i])
        /\ calls[i].op = "listTasks"
        /\ calls[i].args[1] # Undefined
        /\ \E j \in 1..Len(calls[i].args[1].e) : calls[i].args[1].e[j][2] = Undefined
        /\ CountOf("%", OpRequest(calls[i]).url) >= 2

\* C10 witness: a listTasks request for a record whose values are all
\* absent goes to the bare path.
C10_WitnessBare ==
    \E i \in Slots :
        /\ Requested(calls[i])
        /\ calls[i].op = "listTasks"
        /\ calls[i].args[1] # Undefined
        /\ calls[i].args[1].e # <<>>
        /\ OpRequest(calls[i]).url = <<API_BASE_URL, "/tasks">>

EndsWith(msg, suffix) ==
    /\ Len(msg) >= Len(suffix)
    /\ SubSeq(msg, Len(msg) - Len(suffix) + 1, Len(msg)) = suffix

\* the invocation has ended on the remote's answer to the operation's own
\* request
Answered(c) ==
    /\ c.pc = "done"
    /\ c.resp.t = "http"
    /\ OpRequest(c) # LoginRequest

\* the body's error field when it has a non-empty one, the generic message
\* of the operation otherwise
StatedFailure(op, resp) ==
    IF resp.json /\ Truthy(Get(resp.data, "error"))
        THEN ToStr(resp.data["error"])
    ELSE <<GenericMessage(op)>>

\* C11: an operation answered with a non-success status fails, and its
\* message ends with the body's error field when the body has a non-empty
\* one, and with the generic message of the operation when the body has no
\* error field, an empty one, or is not JSON.
C11_RejectionMessage ==
    \A i \in Slots :
        (Answered(calls[i]) /\ ~calls[i].resp.ok)
            => /\ calls[i].ret.k = "throw"
               /\ EndsWith(calls[i].ret.msg, StatedFailure(calls[i].op, calls[i].resp))

OperationPrefixes ==
    {"Create task error: ", "Update task error: ", "Get task error: ",
     "Delete task error: ", "List tasks error: ", "Get task lists error: ",
     "Duplicate list error: ", "Complete task error: ", "Uncomplete task error: "}

\* the prefix that names the operation the caller invoked
InvokedPrefix(op) ==
    CASE op = "createTask" -> "Create task error: "
      [] op = "updateTask" -> "Update task error: "
      [] op = "getTask" -> "Get task error: "
      [] op = "deleteTask" -> "Delete task error: "
      [] op = "listTasks" -> "List tasks error: "
      [] op = "getTaskLists" -> "Get task lists error: "
      [] op = "completeTask" -> "Complete task error: "
      [] op = "uncompleteTask" -> "Uncomplete task error: "
      [] OTHER -> "Duplicate list error: "

\* the prefix of the method whose catch block wraps the failure:
\* completeTask and uncompleteTask fail inside updateTask
WrappingPrefix(op) ==
    IF op \in {"completeTask", "uncompleteTask"} THEN "Update task error: "
    ELSE InvokedPrefix(op)

PrefixCount(msg) == Cardinality({j \in 1..Len(msg) : msg[j] \in OperationPrefixes})

Failed(c) == c.pc = "done" /\ c.ret.k = "throw"

C12_WitnessLocal ==
    \E i \in Slots :
        /\ Failed(calls[i])
        /\ calls[i].op = "getTask"
        /\ calls[i].reqs = <<>>
        /\ calls[i].ret.msg[1] = "Get task error: "

\* a tool invocation whose handler has run to its end
HandlerEnded(c) == c.entry = "tool" /\ c.pc = "done" /\ c.ret # Invalid

\* text is an object printed with one member per line, indented by two:
\* every field of data has its line, and there are no other lines
IsPrettyObject(text, data) ==
    /\ DOMAIN data = {} => text = <<"{}">>
    /\ DOMAIN data # {} => text[1] = "{"
    /\ DOMAIN data # {} => text[Len(text)] = "\n}"
    /\ CountOf("\n  ", text) = Cardinality(DOMAIN data)
    /\ \A k \in DOMAIN data :
          \E j \in 1..Len(text) :
              /\ j + 6 <= Len(text)
              /\ SubSeq(text, j, j + 4) = <<"\n  ", "\"", k, "\": ", "\"">>
              /\ SubSeq(text, j + 5, j + 4 + Len(data[k].s)) = data[k].s

\* C13: a tool invocation whose handler has run has returned exactly one
\* content block, of type text, and has not thrown: the text is the
\* pretty-printed JSON of the client's return value exactly when the client
\* operation returned, and 'Error: ' followed by the client's failure
\* message exactly when it failed. Before the handler ends there is no
\* result.
C13_OneTextBlock ==
    \A i \in Slots :
        /\ HandlerEnded(calls[i])
              => /\ calls[i].out.k = "result"
                 /\ Len(calls[i].out.content) = 1
                 /\ calls[i].out.content[1].type = "text"
                 /\ IF calls[i].ret.k = "return"
                        THEN /\ IsPrettyObject(calls[i].out.content[1].text,
                                               calls[i].ret.data)
                             /\ calls[i].out.content[1].text[1] # "Error: "
                    ELSE /\ calls[i].ret.k = "throw"
                         /\ calls[i].out.content[1].text
                               = <<"Error: ">> \o calls[i].ret.msg
                         /\ calls[i].out.content[1].text[1] \notin {"{", "{}"}
        /\ ~HandlerEnded(calls[i]) => calls[i].out = NoOut

\* C13 witness: a tool's handler has ended on a failure of the client.
C13_Witness ==
    \E i \in Slots :
        /\ HandlerEnded(calls[i])
        /\ calls[i].ret.k = "throw"
        /\ calls[i].out.content[1].text[1] = "Error: "

\* C13 witness: a tool's handler has ended on the client's return value.
C13_WitnessSuccess ==
    \E i \in Slots :
        /\ HandlerEnded(calls[i])
        /\ calls[i].ret.k = "return"
        /\ calls[i].out.content[1].text[1] = "{"

\* the remote has answered the operation's request with a success status
AnsweredOk(c) == Answered(c) /\ c.resp.ok

\* C14: an operation answered with a success status and a JSON payload
\* returns an envelope whose success flag is set and whose data field is
\* that payload, not the bare body.
C14_SuccessEnvelope ==
    \A i \in Slots :
        (AnsweredOk(calls[i]) /\ calls[i].resp.json)
            => /\ calls[i].ret.k = "return"
               /\ calls[i].ret.data # calls[i].resp.data
               /\ {"success", "data"} \subseteq DOMAIN calls[i].ret.data
               /\ calls[i].ret.data["success"] = Bool(TRUE)
               /\ calls[i].ret.data["data"] = Obj(calls[i].resp.data)

Null == [t |-> "null"]

\* C15: deleteTask called with a token and an identifier and answered with
\* a success status returns a success result whose payload is null,
\* whatever the body; it fails only when the remote rejects, the transport
\* fails or the local validation fails.
C15_DeleteSucceeds ==
    \A i \in Slots :
        (calls[i].op = "deleteTask" /\ calls[i].pc = "done" /\ ClientCalled(calls[i])
           /\ Truthy(calls[i].tok0) /\ Truthy(GivenId(calls[i])))
            => /\ AnsweredOk(calls[i])
                  => /\ calls[i].ret.k = "return"
                     /\ "data" \in DOMAIN calls[i].ret.data
                     /\ calls[i].ret.data["data"] = Null
               /\ Failed(calls[i])
                  => \/ calls[i].reqs = <<>>
                     \/ calls[i].resp.t = "failure"
                     \/ calls[i].resp.t = "http" /\ ~calls[i].resp.ok

\* the name the caller gave to duplicateList: the name field of the record
\* passed to the client method, or the name argument of the tool
GivenName(c) ==
    IF c.entry = "tool" THEN Get(c.raw.f, "name")
    ELSE IF c.args[2] = Undefined THEN Undefined
    ELSE Get(c.args[2].f, "name")

NameBody(name) == JsonBody(JSONstringify("name" :> name))

EmptyBody == JsonBody(JSONstringify(EmptyObj))

\* duplicateList has issued exactly one request, a POST to
\* /lists/<listId>/duplicate, and returns the body of a JSON success answer
DuplicateRequest(c) ==
    /\ Len(c.reqs) = 1
    /\ c.reqs[1].method = "POST"
    /\ c.reqs[1].url = <<API_BASE_URL, "/lists/">> \o ToStr(GivenId(c)) \o <<"/duplicate">>
    /\ (AnsweredOk(c) /\ c.resp.json) => c.ret = Return(c.resp.data)

\* C16 as stated: the body of duplicateList's request is {"name": name}
\* when a non-empty name is given and the empty object when no name or an
\* empty name is given, through the client or through the tool.
C16_EmptyNameOmitted ==
    \A i \in Slots :
        (calls[i].op = "duplicateList" /\ Requested(calls[i]))
            => /\ DuplicateRequest(calls[i])
               /\ calls[i].reqs[1].body
                     = IF Truthy(GivenName(calls[i])) THEN NameBody(GivenName(calls[i]))
                       ELSE EmptyBody

\* C16: duplicateList issues one POST to /lists/<listId>/duplicate and
\* returns the body of a JSON success answer. Called on the client, its
\* body is {"name": name} whenever the record has a name, the empty string
\* included, and the empty object when there is no record or no name in
\* it; called through the tool, the body is {"name": name} for a non-empty
\* name and the empty object for an absent or empty one.
C16_DuplicateBody ==
    \A i \in Slots :
        (calls[i].op = "duplicateList" /\ Requested(calls[i]))
            => /\ DuplicateRequest(calls[i])
               /\ calls[i].reqs[1].body
                     = IF calls[i].entry = "tool"
                           THEN (IF Truthy(GivenName(calls[i]))
                                     THEN NameBody(GivenName(calls[i])) ELSE EmptyBody)
                       ELSE (IF GivenName(calls[i]) # Undefined
                                 THEN NameBody(GivenName(calls[i])) ELSE EmptyBody)

\* C16 witness: the client method called with an empty name has sent it.
C16_Witness ==
    \E i \in Slots :
        /\ calls[i].op = "duplicateList"
        /\ calls[i].entry = "direct"
        /\ Requested(calls[i])
        /\ GivenName(calls[i]) = Str(<<>>)
        /\ calls[i].reqs[1].body = NameBody(Str(<<>>))

\* C16 witness: the tool called with an empty name has sent the empty
\* object, and with the name Copy has sent it.
C16_WitnessTool ==
    \E i \in Slots :
        /\ calls[i].op = "duplicateList"
        /\ calls[i].entry = "tool"
        /\ Requested(calls[i])
        /\ \/ GivenName(calls[i]) = Str(<<>>) /\ calls[i].reqs[1].body = EmptyBody
           \/ /\ GivenName(calls[i]) = Str(<<"Copy">>)
              /\ calls[i].reqs[1].body = NameBody(Str(<<"Copy">>))
              /\ calls[i].ret.k = "return"

\* C17: the getTaskLists tool invoked with an empty argument record is
\* accepted, reaches the client and issues GET /lists.
C17_NoInputNeeded ==
    \A i \in Slots :
        (Active(calls[i]) /\ calls[i].entry = "tool" /\ calls[i].op = "getTaskLists"
           /\ calls[i].raw = Obj(EmptyObj))
            => /\ calls[i].ret # Invalid
               /\ Requested(calls[i])
               /\ OpRequest(calls[i]).method = "GET"
               /\ OpRequest(calls[i]).url = <<API_BASE_URL, "/lists">>

\* the server process has run its startup
StartupDone == server \in {"exited", "running"}

\* C18: a server process started with no token, or an empty one, on the
\* command line and in the environment has exited; an exited process has
\* no client token, has had no tool invoked and has made no request; tools
\* are invoked only in a running process, and a process runs only with a
\* non-empty token that it found at startup.
C18_NoTokenNoServer ==
    /\ (StartupDone /\ ~Truthy(TokenArgOf(startup.argv)) /\ ~Truthy(startup.env))
          => server = "exited"
    /\ server = "exited"
          => /\ authToken = Undefined
             /\ \A i \in Slots : calls[i] = Idle
    /\ server = "running"
          => /\ Truthy(authToken)
             /\ authToken \in {TokenArgOf(startup.argv), startup.env}
    /\ \A i \in Slots : calls[i].entry = "tool" => server = "running"

\* C18 witness: a process started with an empty token in the environment
\* and none on the command line has exited.
C18_Witness ==
    /\ server = "exited"
    /\ startup.argv = <<>>
    /\ startup.env = Str(<<>>)

\* C18 witness: a running process has made a request for a tool.
C18_WitnessRunning ==
    /\ server = "running"
    /\ \E i \in Slots : calls[i].entry = "tool" /\ Requested(calls[i])

\* the request carries the two headers, with token as the bearer
Authorized(req, token) ==
    /\ DOMAIN req.headers = {"Authorization", "Content-Type"}
    /\ req.headers["Authorization"] = <<"Bearer ">> \o ToStr(token)
    /\ req.headers["Content-Type"] = <<"application/json">>

\* C19: every request that has been sent carries Authorization: Bearer
\* <token>, for a non-empty token that is the client's token when the
\* operation was called with one, and Content-Type: application/json; no
\* request goes out without the Authorization header.
C19_EveryRequestAuthorized ==
    \A i \in Slots :
        \A j \in 1..Len(calls[i].reqs) :
            /\ \E t \in AllTokens : Truthy(t) /\ Authorized(calls[i].reqs[j], t)
            /\ Truthy(calls[i].tok0) => Authorized(calls[i].reqs[j], calls[i].tok0)

\* the parameters of listTasks in the order ListTasksParams declares them
DeclaredOrder(v) ==
    IF v = "valid" THEN <<"status", "list_id", "updated_before", "updated_after">>
    ELSE <<"page", "page_size", "list_id", "completed">>

Declared(v, k) == \E n \in 1..Len(DeclaredOrder(v)) : DeclaredOrder(v)[n] = k

Rank(v, k) == CHOOSE n \in 1..Len(DeclaredOrder(v)) : DeclaredOrder(v)[n] = k

\* the positions of the keys in a URL: a key is followed by "=" (an "=" in
\* a value is escaped)
KeyPositions(url) == {j \in 1..Len(url) - 1 : url[j + 1] = "="}

\* C20: in the URL of a listTasks request the declared parameters that are
\* present appear in the order in which ListTasksParams declares them,
\* whatever the order of the caller's record.
C20_DeclaredOrder ==
    \A i \in Slots :
        (Requested(calls[i]) /\ calls[i].op = "listTasks")
            => LET url == OpRequest(calls[i]).url
               IN \A j1, j2 \in KeyPositions(url) :
                     (j1 < j2 /\ Declared(variant, url[j1]) /\ Declared(variant, url[j2]))
                         => Rank(variant, url[j1]) < Rank(variant, url[j2])

\* C21: before startup has succeeded the client holds no token and no tool
\* is invoked; once the server runs, no step of any invocation, started, in
\* flight or finished, writes the token or stops the server, and every
\* invocation has been started with the token the client still holds.
C21_TokenReadOnly ==
    [][ /\ server # "running"
           => /\ authToken = Undefined
              /\ \A i \in DOMAIN calls : calls[i] = Idle /\ calls'[i] = Idle
        /\ server = "running"
           => /\ Truthy(authToken)
              /\ authToken' = authToken
              /\ server' = "running"
              /\ \A i \in DOMAIN calls :
                    calls'[i] # Idle => calls'[i].tok0 = authToken ]_vars

\* C21 witness: with the startup token still held, one invocation has
\* finished and another is in flight.
C21_Witness ==
    /\ server = "running"
    /\ authToken = Str(<<"tk1">>)
    /\ \E i, j \in DOMAIN calls :
          /\ calls[i].pc = "done" /\ calls[i].resp.t = "failure"
          /\ calls[j].pc = "fetch" /\ calls[j].tok0 = authToken

\* what the invocation c would be had it run alone: started from its own
\* tool and arguments with the token tok, and, once answered, finished on
\* its own response
RanAlone(c, v, tok) ==
    LET started == Invoked(v, tok, c.op, c.raw.f)
    IN IF c.resp = NoResponse THEN started
       ELSE Finish([started EXCEPT !.resp = c.resp], AfterFetch(c.op, c.resp))

\* C22: in every step of any interleaving, each invocation is what it
\* would be had it run alone on its own arguments, the token and the
\* response to its own request; an answered invocation has issued its own
\* request; a step changes one invocation only; and no invocation waits
\* for another: a pending one can be answered whatever the others are
\* doing.
C22_Independent ==
    [][ \A i \in DOMAIN calls :
          /\ (calls'[i] # Idle /\ calls'[i] # calls[i])
                => /\ calls'[i] = RanAlone(calls'[i], variant, authToken)
                   /\ calls'[i].resp # NoResponse => Len(calls'[i].reqs) = 1
          /\ calls'[i] # calls[i]
                => \A j \in DOMAIN calls \ {i} : calls'[j] = calls[j]
          /\ calls[i].pc = "fetch" => ENABLED Respond(i, NetFailure) ]_vars

\* C22 witness: two invocations of one tool with the same arguments have
\* each issued the request and have returned different results, each from
\* its own response.
C22_Witness ==
    \E i, j \in DOMAIN calls :
        /\ i # j
        /\ calls[i].pc = "done" /\ calls[j].pc = "done"
        /\ calls[i].op = calls[j].op /\ calls[i].raw = calls[j].raw
        /\ calls[i].reqs = calls[j].reqs /\ Len(calls[i].reqs) = 1
        /\ calls[i].ret.k = "return" /\ calls[j].ret.k = "throw"

\* C22 witness: two invocations are pending together, the second started
\* while the first awaited its response.
C22_WitnessPending ==
    \E i, j \in DOMAIN calls :
        /\ i # j
        /\ calls[i].pc = "fetch" /\ calls[j].pc = "fetch"
        /\ calls[i].reqs # calls[j].reqs

\* the handler of the invocation has returned its text result
Returned(c) ==
    /\ c.pc = "done"
    /\ c.out.k = "result"
    /\ c.out.content[1].text[1] \in {"{", "{}", "Error: "}

\* C23: when the transport settles every fetch, every invocation that
\* awaits its response eventually has returned its text result; a pending
\* invocation goes nowhere but to its result (it is not cancelled and its
\* request is not reissued); and an invocation whose handler has run
\* without a request, having failed the local validation, has returned
\* its result in the step that invoked it.
C23_EventuallyReturns ==
    /\ \A i \in InFlight : (calls[i].pc = "fetch") ~> Returned(calls[i])
    /\ [][\A i \in InFlight :
            /\ calls[i].pc = "fetch"
                  => \/ calls'[i] = calls[i]
                     \/ Returned(calls'[i]) /\ calls'[i].reqs = calls[i].reqs
            /\ (calls[i].pc = "idle" /\ calls'[i].pc # "idle" /\ calls'[i].ret # Invalid)
                  => \/ calls'[i].pc = "fetch" /\ Len(calls'[i].reqs) = 1
                     \/ Returned(calls'[i]) /\ calls'[i].reqs = <<>>]_vars

\* C23 witness: an invocation that awaited its response has returned its
\* result while another has returned the failure of its local validation.
C23_Witness ==
    \E i, j \in InFlight :
        /\ Returned(calls[i]) /\ calls[i].resp # NoResponse
        /\ Returned(calls[j]) /\ calls[j].reqs = <<>>
        /\ calls[j].out.content[1].text[1] = "Error: "

\* C24: a createTask tool invocation that lacks the title, or that lacks
\* list_id (the startup reads no default list identifier, so none is ever
\* configured), has ended without any request.
C24_TitleAndListRequired ==
    \A i \in Slots :
        (Active(calls[i]) /\ calls[i].entry = "tool" /\ calls[i].op = "createTask"
           /\ (~Has(calls[i].raw.f, "title") \/ ~Has(calls[i].raw.f, "list_id")))
            => /\ calls[i].pc = "done"
               /\ calls[i].reqs = <<>>

IsTokenFlag(arg) ==
    arg \in {Str(<<"--token">>), Str(<<"-t">>)} \/ StartsWithTokenFlag(arg)

\* the value of the first token argument of the command line: what follows
\* --token=, or the argument after --token or -t; absent when there is no
\* token argument or no argument after it
FirstTokenValue(argv) ==
    IF \A j \in 1..Len(argv) : ~IsTokenFlag(argv[j]) THEN Undefined
    ELSE LET j == CHOOSE n \in 1..Len(argv) :
                      IsTokenFlag(argv[n]) /\ \A k \in 1..(n - 1) : ~IsTokenFlag(argv[k])
         IN IF StartsWithTokenFlag(argv[j]) THEN Str(Tail(argv[j].s))
            ELSE IF j < Len(argv) THEN argv[j + 1]
            ELSE Undefined

\* the token the precedence chooses: the value of the first token argument
\* when it is not empty, the environment variable otherwise
ChosenToken ==
    IF Truthy(FirstTokenValue(startup.argv)) THEN FirstTokenValue(startup.argv)
    ELSE startup.env

\* C25: once startup is done, the process runs with the token of the first
\* token argument of the command line when its value is not empty, and
\* otherwise with that of GODSPEED_TOKEN, and every request carries that
\* token; it has exited only when the token so chosen is absent or empty.
C25_TokenPrecedence ==
    StartupDone
        => IF Truthy(ChosenToken)
               THEN /\ server = "running"
                    /\ authToken = ChosenToken
                    /\ \A i \in DOMAIN calls : \A j \in 1..Len(calls[i].reqs) :
                          Authorized(calls[i].reqs[j], ChosenToken)
           ELSE server = "exited"

====
